---------------------------- MODULE Spec2Model ----------------------------
(***************************************************************************)
(* Inventory of optical frames: the create-or-merge policy of the bot's    *)
(* /add, the explicit /merge, /update, /setstock and /delete handlers, the *)
(* guided /new conversation, /search, /export and /stats, the interactive  *)
(* "add" and "search" of main.py, and the SQLite store they share.         *)
(*                                                                         *)
(* Text is a sequence of code points (Latin-1 range), so that the two case *)
(* foldings the code uses (Python's str.lower on the candidate, SQLite's   *)
(* lower() on the stored column) are computed, not assumed equal.          *)
(* A nullable value is a tuple of length 0 (None / NULL) or 1.             *)
(***************************************************************************)
EXTENDS Integers, Sequences, FiniteSets, TLC

VARIABLES
    frames,       \* table "frames": id -> row
    uniqueIndex,  \* idx_unique_brand_model is installed
    clock,        \* datetime.utcnow(), a logical clock read at each insert
    msg,          \* the update (command and arguments) handled last
    reply,        \* what the handler answered to it
    conv,         \* state of the /new conversation (ConversationHandler)
    draft,        \* context.user_data["new_frame"], None when popped
    pc,           \* per bot process: position inside its add handler
    req,          \* per bot process: the normalized candidate of its /add
    existing      \* per bot process: the row its lookup loaded, or None

convVars == <<conv, draft>>

raceVars == <<pc, req, existing>>

vars == <<frames, uniqueIndex, clock, msg, reply, conv, draft, pc, req, existing>>

----------------------------------------------------------------------------
(* Bounds *)

MaxClock == 2     \* inserts performed in one behaviour
MaxStock == 3     \* largest stock a handler is asked to produce

----------------------------------------------------------------------------
(* Values *)

None == << >>
Some(x) == <<x>>

TextFields == {"brand", "model_code", "material", "color", "shape", "gender", "notes"}

Columns ==
    {"brand", "model_code", "material", "lens_width", "bridge_size",
     "temple_length", "color", "shape", "gender", "price", "stock", "notes"}

MATERIAL_CHOICES ==
    { <<112,108,97,115,116,105,99>>,                                \* plastic
      <<97,99,101,116,97,116,101>>,                                 \* acetate
      <<109,101,116,97,108>>,                                       \* metal
      <<115,116,97,105,110,108,101,115,115,32,115,116,101,101,108>>, \* stainless steel
      <<116,105,116,97,110,105,117,109>>,                           \* titanium
      <<97,108,117,109,105,110,117,109>>,                           \* aluminum
      <<119,111,111,100>>,                                          \* wood
      <<99,97,114,98,111,110,32,102,105,98,101,114>>,               \* carbon fiber
      <<111,116,104,101,114>>,                                      \* other
      <<117,110,107,110,111,119,110>> }                             \* unknown

Unknown == <<117,110,107,110,111,119,110>>

\* str.lower(): Python folds every cased letter (here: A-Z and the Latin-1
\* capitals 192..222 except the multiplication sign 215).
PyLower(s) ==
    [i \in DOMAIN s |->
        IF (s[i] >= 65 /\ s[i] <= 90) \/ (s[i] >= 192 /\ s[i] <= 222 /\ s[i] # 215)
        THEN s[i] + 32 ELSE s[i]]

\* SQLite's built-in lower(): ASCII letters only.
SqlLower(s) ==
    [i \in DOMAIN s |-> IF s[i] >= 65 /\ s[i] <= 90 THEN s[i] + 32 ELSE s[i]]

IsDigit(c) == c >= 48 /\ c <= 57

RECURSIVE DigitsValue(_)
DigitsValue(s) ==
    IF s = << >> THEN 0
    ELSE 10 * DigitsValue(SubSeq(s, 1, Len(s) - 1)) + (s[Len(s)] - 48)

\* int(raw): optional sign, then one or more digits; anything else raises
\* ValueError, rendered as None.
PyInt(raw) ==
    LET signed == Len(raw) > 0 /\ raw[1] \in {43, 45}
        digits == IF signed THEN SubSeq(raw, 2, Len(raw)) ELSE raw
    IN  IF Len(digits) > 0 /\ \A i \in DOMAIN digits : IsDigit(digits[i])
        THEN Some(IF signed /\ raw[1] = 45 THEN 0 - DigitsValue(digits)
                  ELSE DigitsValue(digits))
        ELSE None

\* float(raw), on the integral literals the inputs are drawn from.
PyFloat(raw) == PyInt(raw)

PyStr(raw) == Some(raw)

FIELD_MAP ==
    [ brand         |-> <<"brand", "str">>,
      model         |-> <<"model_code", "str">>,
      model_code    |-> <<"model_code", "str">>,
      material      |-> <<"material", "str">>,
      lens          |-> <<"lens_width", "int">>,
      lens_width    |-> <<"lens_width", "int">>,
      bridge        |-> <<"bridge_size", "int">>,
      bridge_size   |-> <<"bridge_size", "int">>,
      temple        |-> <<"temple_length", "int">>,
      temple_length |-> <<"temple_length", "int">>,
      color         |-> <<"color", "str">>,
      shape         |-> <<"shape", "str">>,
      gender        |-> <<"gender", "str">>,
      price         |-> <<"price", "float">>,
      stock         |-> <<"stock", "int">>,
      notes         |-> <<"notes", "str">> ]

\* Cast with a number that does not parse stored as 0
Cast_ZeroOnError(caster, raw) ==
    CASE caster = "str"   -> PyStr(raw)
      [] caster = "int"   -> IF PyInt(raw) = None THEN Some(0) ELSE PyInt(raw)
      [] caster = "float" -> IF PyFloat(raw) = None THEN Some(0) ELSE PyFloat(raw)

Cast(caster, raw) ==
    CASE caster = "str"   -> PyStr(raw)
      [] caster = "int"   -> PyInt(raw)
      [] caster = "float" -> PyFloat(raw)

EmptyDict == [f \in {} |-> None]

DictSet(d, k, v) == [x \in DOMAIN d \cup {k} |-> IF x = k THEN v ELSE d[x]]

DictGet(d, k) == IF k \in DOMAIN d THEN d[k] ELSE None

\* The loop of normalize_fields over kv.items(): unknown keys are skipped,
\* a value whose cast raises is skipped, a later key for the same field wins.
RECURSIVE CastAll(_, _)
CastAll(kv, out) ==
    IF kv = << >> THEN out
    ELSE LET k    == kv[1][1]
             raw  == kv[1][2]
             rest == SubSeq(kv, 2, Len(kv))
         IN  IF k \notin DOMAIN FIELD_MAP THEN CastAll(rest, out)
             ELSE LET v == Cast(FIELD_MAP[k][2], raw)
                  IN  IF v = None THEN CastAll(rest, out)
                      ELSE CastAll(rest, DictSet(out, FIELD_MAP[k][1], v))

normalize_fields(kv) ==
    LET out == CastAll(kv, EmptyDict)
    IN  IF "material" \in DOMAIN out /\ PyLower(out["material"][1]) \notin MATERIAL_CHOICES
        THEN DictSet(out, "material", Some(Unknown))
        ELSE out

----------------------------------------------------------------------------
(* Rows of table "frames" (models.Frame) and the store *)

\* v in (None, "", 0)
IsEmptyValue(f, v) ==
    v = None \/ (IF f \in TextFields THEN v = Some(<< >>) ELSE v = Some(0))

\* v not in (None, "")
IsSupplied(f, v) == v # None /\ (f \in TextFields => v # Some(<< >>))

\* Python's "v or d" on a nullable value
OrElse(f, v, d) == IF IsEmptyValue(f, v) THEN d ELSE v[1]

ColumnDefault(c) ==
    CASE c = "material" -> Some(Unknown)
      [] c = "stock"    -> Some(0)
      [] OTHER          -> None

\* Frame(**data) as it is inserted: attributes not passed take the column
\* default; the id is the rowid SQLite assigns.
Frame(id, data, now) ==
    [c \in Columns \cup {"id", "created_at"} |->
        CASE c = "id"         -> id
          [] c = "created_at" -> now
          [] OTHER            -> IF c \in DOMAIN data THEN data[c] ELSE ColumnDefault(c)]

Max(S) == CHOOSE x \in S : \A y \in S : y <= x

\* INTEGER PRIMARY KEY without AUTOINCREMENT: largest rowid in the table + 1
NextId(fs) == IF DOMAIN fs = {} THEN 1 ELSE Max(DOMAIN fs) + 1

Insert(fs, row) == [i \in DOMAIN fs \cup {row["id"]} |-> IF i = row["id"] THEN row ELSE fs[i]]

Delete(fs, id) == [i \in DOMAIN fs \ {id} |-> fs[i]]

\* The pair idx_unique_brand_model indexes:
\* (LOWER(COALESCE(brand,'')), LOWER(model_code))
IndexKey(row) ==
    << SqlLower(IF row["brand"] = None THEN << >> ELSE row["brand"][1]),
       SqlLower(row["model_code"][1]) >>

HasDuplicates(fs) ==
    \E i, j \in DOMAIN fs : i # j /\ IndexKey(fs[i]) = IndexKey(fs[j])

\* A statement that leaves two rows with one index key raises IntegrityError.
Violates(idx, fs) == idx /\ HasDuplicates(fs)

\* The Matching Key of the spec: (lowercase(brand) or "", lowercase(modelCode))
MatchingKey(brand, model) ==
    << PyLower(IF brand = None THEN << >> ELSE brand[1]), PyLower(model[1]) >>

RowKey(row) == MatchingKey(row["brand"], row["model_code"])

----------------------------------------------------------------------------
(* /add: create or merge *)

brand_val(data) == PyLower(OrElse("brand", DictGet(data, "brand"), << >>))

model_val(data) == PyLower(data["model_code"][1])

\* session.query(Frame).filter(lower(model_code) == model_val)
\*                     .filter(coalesce(lower(brand), "") == brand_val)
\* the ids of the rows the query selects; first() returns one of them
Lookup(fs, data) ==
    { i \in DOMAIN fs :
        /\ SqlLower(fs[i]["model_code"][1]) = model_val(data)
        /\ (IF fs[i]["brand"] = None THEN << >> ELSE SqlLower(fs[i]["brand"][1]))
              = brand_val(data) }

updatable_fields ==
    {"material", "lens_width", "bridge_size", "temple_length", "color",
     "shape", "gender", "price", "notes"}

\* add_stock of add(): the supplied stock, or 1 when none or zero is supplied
AddStock(norm) ==
    LET add_stock == OrElse("stock", DictGet(norm, "stock"), 0)
    IN  IF add_stock = 0 THEN 1 ELSE add_stock

\* AddMerge with the stored value overwritten whenever the candidate has one
AddMerge_Overwrite(row, norm) ==
    [c \in DOMAIN row |->
        CASE c = "stock" -> Some(OrElse("stock", row["stock"], 0) + AddStock(norm))
          [] c \in updatable_fields ->
                IF c \in DOMAIN norm /\ IsSupplied(c, norm[c]) THEN norm[c] ELSE row[c]
          [] OTHER -> row[c]]

\* the merge branch of add(): stock is increased, missing fields are filled
AddMerge(row, norm) ==
    [c \in DOMAIN row |->
        CASE c = "stock" -> Some(OrElse("stock", row["stock"], 0) + AddStock(norm))
          [] c \in updatable_fields ->
                IF IsEmptyValue(c, row[c]) /\ c \in DOMAIN norm /\ IsSupplied(c, norm[c])
                THEN norm[c] ELSE row[c]
          [] OTHER -> row[c]]

\* the create branch of add(): stock defaults to 1 if not given
AddCreate(id, norm, now) ==
    LET frame == Frame(id, norm, now)
    IN  IF "stock" \notin DOMAIN norm THEN [frame EXCEPT !["stock"] = Some(1)] ELSE frame

StockOf(row) == OrElse("stock", row["stock"], 0)

NoReply == [kind |-> "none", id |-> 0]

Add(data) ==
    LET norm == normalize_fields(data)
    IN  /\ msg' = [cmd |-> "add", data |-> data, ids |-> << >>]
        /\ UNCHANGED <<uniqueIndex, convVars, raceVars>>
        /\ IF "model_code" \notin DOMAIN norm
           THEN /\ reply' = [kind |-> "missing_model", id |-> 0]
                /\ UNCHANGED <<frames, clock>>
           ELSE IF Lookup(frames, norm) # {}
           THEN \E e \in Lookup(frames, norm) :
                   LET row == AddMerge(frames[e], norm)
                   IN  /\ StockOf(row) <= MaxStock
                       /\ frames' = [frames EXCEPT ![e] = row]
                       /\ reply' = [kind |-> "updated", id |-> e]
                       /\ UNCHANGED clock
           ELSE LET frame == AddCreate(NextId(frames), norm, clock)
                IN  /\ clock < MaxClock
                    /\ IF Violates(uniqueIndex, Insert(frames, frame))
                       THEN /\ reply' = [kind |-> "raise", id |-> 0]
                            /\ UNCHANGED <<frames, clock>>
                       ELSE /\ frames' = Insert(frames, frame)
                            /\ clock' = clock + 1
                            /\ reply' = [kind |-> "added", id |-> frame["id"]]

\* init_db() of the bot: the unique index is created unless duplicates exist
BotInitDb ==
    /\ uniqueIndex' = (uniqueIndex \/ ~HasDuplicates(frames))
    /\ msg' = [cmd |-> "init_db", data |-> << >>, ids |-> << >>]
    /\ reply' = NoReply
    /\ UNCHANGED <<frames, clock, convVars, raceVars>>

----------------------------------------------------------------------------
(* /merge, /update, /setstock, /delete *)

merge_fields == updatable_fields \cup {"brand"}

\* MergeRows with the stock of the source dropped
MergeRows_KeepStock(src, tgt) ==
    [c \in DOMAIN tgt |->
        CASE c = "stock" -> Some(OrElse("stock", tgt["stock"], 0))
          [] c \in merge_fields ->
                IF IsEmptyValue(c, tgt[c]) /\ IsSupplied(c, src[c]) THEN src[c] ELSE tgt[c]
          [] OTHER -> tgt[c]]

\* the target of merge_cmd after the stock sum and the field fill
MergeRows(src, tgt) ==
    [c \in DOMAIN tgt |->
        CASE c = "stock" -> Some(OrElse("stock", tgt["stock"], 0) + OrElse("stock", src["stock"], 0))
          [] c \in merge_fields ->
                IF IsEmptyValue(c, tgt[c]) /\ IsSupplied(c, src[c]) THEN src[c] ELSE tgt[c]
          [] OTHER -> tgt[c]]

\* SameIds with the test left out
SameIds_Never(sid, tid) == FALSE

\* "if sid == tid" of merge_cmd
SameIds(sid, tid) == sid = tid

\* "if not src or not tgt" of merge_cmd, negated
BothFound(fs, sid, tid) == sid \in DOMAIN fs /\ tid \in DOMAIN fs

\* session.commit() of merge_cmd: the unit of work emits the UPDATE of the
\* target before the DELETE of the source, and SQLite checks the unique
\* index at each statement; an IntegrityError rolls both back.
Merge(sid, tid) ==
    /\ msg' = [cmd |-> "merge", data |-> << >>, ids |-> <<sid, tid>>]
    /\ UNCHANGED <<uniqueIndex, clock, convVars, raceVars>>
    /\ IF SameIds(sid, tid)
       THEN reply' = [kind |-> "must_differ", id |-> 0] /\ UNCHANGED frames
       ELSE IF ~BothFound(frames, sid, tid)
       THEN reply' = [kind |-> "not_found", id |-> 0] /\ UNCHANGED frames
       ELSE LET updated == [frames EXCEPT ![tid] = MergeRows(frames[sid], frames[tid])]
            IN  IF Violates(uniqueIndex, updated)
                THEN reply' = [kind |-> "raise", id |-> 0] /\ UNCHANGED frames
                ELSE /\ frames' = Delete(updated, sid)
                     /\ reply' = [kind |-> "merged", id |-> tid]

\* ApplyUpdate under the fill-only-if-empty policy of /add
ApplyUpdate_FillOnly(row, norm) ==
    [c \in DOMAIN row |->
        IF c \in DOMAIN norm /\ IsEmptyValue(c, row[c]) THEN norm[c] ELSE row[c]]

\* "for k, v in norm.items(): setattr(row, k, v)" of update_cmd
ApplyUpdate(row, norm) ==
    [c \in DOMAIN row |-> IF c \in DOMAIN norm THEN norm[c] ELSE row[c]]

Update(id, data) ==
    LET norm == normalize_fields(data)
    IN  /\ msg' = [cmd |-> "update", data |-> data, ids |-> <<id>>]
        /\ UNCHANGED <<uniqueIndex, clock, convVars, raceVars>>
        /\ IF DOMAIN norm = {}
           THEN reply' = [kind |-> "no_valid_fields", id |-> 0] /\ UNCHANGED frames
           ELSE IF id \notin DOMAIN frames
           THEN reply' = [kind |-> "not_found", id |-> 0] /\ UNCHANGED frames
           ELSE LET updated == [frames EXCEPT ![id] = ApplyUpdate(frames[id], norm)]
                IN  IF Violates(uniqueIndex, updated)
                    THEN reply' = [kind |-> "raise", id |-> 0] /\ UNCHANGED frames
                    ELSE /\ frames' = updated
                         /\ reply' = [kind |-> "updated_fields", id |-> id]

\* SetStock on a table whose created_at is refreshed by every UPDATE
SetStock_Touch(id, val) ==
    /\ msg' = [cmd |-> "setstock", data |-> << >>, ids |-> <<id, val>>]
    /\ UNCHANGED <<uniqueIndex, clock, convVars, raceVars>>
    /\ IF id \notin DOMAIN frames
       THEN reply' = [kind |-> "not_found", id |-> 0] /\ UNCHANGED frames
       ELSE /\ frames' = [frames EXCEPT ![id]["stock"] = Some(val), ![id]["created_at"] = clock]
            /\ reply' = [kind |-> "stock_set", id |-> id]

SetStock(id, val) ==
    /\ msg' = [cmd |-> "setstock", data |-> << >>, ids |-> <<id, val>>]
    /\ UNCHANGED <<uniqueIndex, clock, convVars, raceVars>>
    /\ IF id \notin DOMAIN frames
       THEN reply' = [kind |-> "not_found", id |-> 0] /\ UNCHANGED frames
       ELSE /\ frames' = [frames EXCEPT ![id]["stock"] = Some(val)]
            /\ reply' = [kind |-> "stock_set", id |-> id]

DeleteCmd(id) ==
    /\ msg' = [cmd |-> "delete", data |-> << >>, ids |-> <<id>>]
    /\ UNCHANGED <<uniqueIndex, clock, convVars, raceVars>>
    /\ IF id \notin DOMAIN frames
       THEN reply' = [kind |-> "not_found", id |-> 0] /\ UNCHANGED frames
       ELSE /\ frames' = Delete(frames, id)
            /\ reply' = [kind |-> "deleted", id |-> id]

----------------------------------------------------------------------------
(* /new: the guided add conversation.  A handler that raises leaves the  *)
(* conversation in its state (the draft is already popped by then).      *)

Say(cmd, kind) ==
    /\ msg' = [cmd |-> cmd, data |-> << >>, ids |-> << >>]
    /\ reply' = [kind |-> kind, id |-> 0]

new_start ==
    /\ conv = "END"
    /\ draft' = Some(EmptyDict)
    /\ conv' = "NEW_MODEL"
    /\ Say("new_start", "ask_model")
    /\ UNCHANGED <<frames, uniqueIndex, clock, raceVars>>

\* text is the message already stripped
new_model(text) ==
    /\ conv = "NEW_MODEL"
    /\ Say("new_model", IF text = << >> THEN "ask_model" ELSE "ask_brand")
    /\ IF text = << >>
       THEN UNCHANGED convVars
       ELSE /\ draft' = Some(DictSet(draft[1], "model_code", Some(text)))
            /\ conv' = "NEW_BRAND"
    /\ UNCHANGED <<frames, uniqueIndex, clock, raceVars>>

\* "-" (45) leaves the brand empty
new_brand(text) ==
    /\ conv = "NEW_BRAND"
    /\ draft' = Some(DictSet(draft[1], "brand", IF text = <<45>> THEN None ELSE Some(text)))
    /\ conv' = "NEW_STOCK"
    /\ Say("new_brand", "ask_stock")
    /\ UNCHANGED <<frames, uniqueIndex, clock, raceVars>>

new_stock(text) ==
    /\ conv = "NEW_STOCK"
    /\ IF text # << >> /\ PyInt(text) = None
       THEN Say("new_stock", "ask_stock") /\ UNCHANGED convVars
       ELSE LET stock == IF text = << >> THEN 1
                         ELSE IF PyInt(text)[1] < 0 THEN 0 ELSE PyInt(text)[1]
            IN  /\ draft' = Some(DictSet(draft[1], "stock", Some(stock)))
                /\ conv' = "NEW_OPTIONALS"
                /\ Say("new_stock", "ask_optionals")
    /\ UNCHANGED <<frames, uniqueIndex, clock, raceVars>>

DictUpdate(d, e) ==
    [x \in DOMAIN d \cup DOMAIN e |-> IF x \in DOMAIN e THEN e[x] ELSE d[x]]

\* done: the message is "done"; otherwise kv is its parse_kv_args
new_optionals(done, kv) ==
    /\ conv = "NEW_OPTIONALS"
    /\ IF done
       THEN /\ conv' = "NEW_CONFIRM"
            /\ UNCHANGED draft
            /\ Say("new_optionals", "summary")
       ELSE /\ draft' = Some(DictUpdate(draft[1], normalize_fields(kv)))
            /\ UNCHANGED conv
            /\ msg' = [cmd |-> "new_optionals", data |-> kv, ids |-> << >>]
            /\ reply' = [kind |-> "ask_more", id |-> 0]
    /\ UNCHANGED <<frames, uniqueIndex, clock, raceVars>>

\* the merge branch of new_confirm
ConfirmMerge(row, data) ==
    [c \in DOMAIN row |->
        CASE c = "stock" ->
                Some(OrElse("stock", row["stock"], 0) + OrElse("stock", DictGet(data, "stock"), 1))
          [] c \in updatable_fields ->
                IF IsEmptyValue(c, row[c]) /\ c \in DOMAIN data THEN data[c] ELSE row[c]
          [] OTHER -> row[c]]

\* ans is the answer stripped and lowercased
new_confirm(ans) ==
    /\ conv = "NEW_CONFIRM"
    /\ msg' = [cmd |-> "new_confirm", data |-> << >>, ids |-> << >>, ans |-> ans]
    /\ UNCHANGED <<uniqueIndex, raceVars>>
    /\ IF ans \notin {"yes", "y", "no", "n"}
       THEN reply' = [kind |-> "ask_yes_no", id |-> 0] /\ UNCHANGED <<frames, clock, convVars>>
       ELSE IF ans \in {"no", "n"}
       THEN /\ draft' = None /\ conv' = "END"
            /\ reply' = [kind |-> "cancelled", id |-> 0]
            /\ UNCHANGED <<frames, clock>>
       ELSE LET data == IF draft = None THEN EmptyDict ELSE draft[1]
            IN  /\ draft' = None
                /\ IF "model_code" \notin DOMAIN data
                   THEN /\ reply' = [kind |-> "raise", id |-> 0]      \* KeyError
                        /\ UNCHANGED <<frames, clock, conv>>
                   ELSE IF Lookup(frames, data) # {}
                   THEN \E e \in Lookup(frames, data) :
                           LET row == ConfirmMerge(frames[e], data)
                           IN  /\ StockOf(row) <= MaxStock
                               /\ frames' = [frames EXCEPT ![e] = row]
                               /\ reply' = [kind |-> "merged_existing", id |-> e]
                               /\ conv' = "END"
                               /\ UNCHANGED clock
                   ELSE LET frame == Frame(NextId(frames), data, clock)
                        IN  /\ clock < MaxClock
                            /\ IF Violates(uniqueIndex, Insert(frames, frame))
                               THEN /\ reply' = [kind |-> "raise", id |-> 0]
                                    /\ UNCHANGED <<frames, clock, conv>>
                               ELSE /\ frames' = Insert(frames, frame)
                                    /\ clock' = clock + 1
                                    /\ conv' = "END"
                                    /\ reply' = [kind |-> "saved", id |-> frame["id"]]

new_cancel ==
    /\ conv # "END"
    /\ draft' = None
    /\ conv' = "END"
    /\ Say("cancel", "cancelled")
    /\ UNCHANGED <<frames, uniqueIndex, clock, raceVars>>

----------------------------------------------------------------------------
(* main.py add: the interactive front end *)

\* prompt_add_frame(): answers holds the non-blank, well-typed answers (a
\* blank answer is skipped, an ill-typed one is asked again); the model code
\* is required, a blank brand is None, the material is lowercased and
\* defaults to "unknown", the stock to 0.
PromptFrame(id, answers, now) ==
    LET given == [c \in DOMAIN answers |->
                    IF c = "material" THEN Some(PyLower(answers[c][1])) ELSE answers[c]]
        frame == Frame(id, given, now)
    IN  [frame EXCEPT !["brand"]    = IF IsEmptyValue("brand", @) THEN None ELSE @,
                      !["material"] = IF IsEmptyValue("material", @) THEN Some(Unknown) ELSE @]

\* add_frame(): session.add(frame); session.commit() - no lookup by key
CliAdd(answers) ==
    LET frame == PromptFrame(NextId(frames), answers, clock)
    IN  /\ clock < MaxClock
        /\ msg' = [cmd |-> "cli_add", data |-> << >>, ids |-> << >>]
        /\ UNCHANGED <<uniqueIndex, convVars, raceVars>>
        /\ IF Violates(uniqueIndex, Insert(frames, frame))
           THEN reply' = [kind |-> "raise", id |-> 0] /\ UNCHANGED <<frames, clock>>
           ELSE /\ frames' = Insert(frames, frame)
                /\ clock' = clock + 1
                /\ reply' = [kind |-> "cli_added", id |-> frame["id"]]

----------------------------------------------------------------------------
(* /add in two bot processes that share the database file.  Each handler   *)
(* runs two statements: the SELECT of the lookup, which takes no write     *)
(* lock, and the INSERT or UPDATE flushed by session.commit().             *)

MaxRaceInserts == 4   \* inserts performed in one behaviour of the race

\* main() of the bot: init_db(), then polling
BotStart(p) ==
    /\ pc[p] = "off"
    /\ uniqueIndex' = (uniqueIndex \/ ~HasDuplicates(frames))
    /\ pc' = [pc EXCEPT ![p] = "idle"]
    /\ UNCHANGED <<frames, clock, msg, reply, convVars, req, existing>>

\* "existing = session.query(Frame)...first()"
AddLookup(p, data) ==
    LET norm == normalize_fields(data)
    IN  /\ pc[p] \in {"idle", "added", "updated", "raised"}
        /\ "model_code" \in DOMAIN norm
        /\ req' = [req EXCEPT ![p] = norm]
        /\ IF Lookup(frames, norm) = {}
           THEN existing' = [existing EXCEPT ![p] = None]
           ELSE \E e \in Lookup(frames, norm) :
                   existing' = [existing EXCEPT ![p] = Some(frames[e])]
        /\ pc' = [pc EXCEPT ![p] = "commit"]
        /\ UNCHANGED <<frames, uniqueIndex, clock, msg, reply, convVars>>

\* ExistingAtCommit with the lookup repeated inside the committing statement
ExistingAtCommit_Relookup(fs, loaded, norm) ==
    IF Lookup(fs, norm) = {} THEN None
    ELSE Some(fs[CHOOSE e \in Lookup(fs, norm) : TRUE])

\* "if existing:" branches on the row the lookup loaded, whatever the table
\* holds by now
ExistingAtCommit(fs, loaded, norm) == loaded

\* The merge branch writes the columns it changed on the loaded row; the
\* create branch inserts.
AddCommit(p) ==
    LET loaded == ExistingAtCommit(frames, existing[p], req[p])
    IN  /\ pc[p] = "commit"
        /\ UNCHANGED <<uniqueIndex, msg, reply, convVars, req, existing>>
        /\ IF loaded # None
           THEN LET old == loaded[1]
                    row == AddMerge(old, req[p])
                IN  /\ StockOf(row) <= MaxStock
                    /\ UNCHANGED clock
                    /\ IF old["id"] \notin DOMAIN frames
                       THEN /\ pc' = [pc EXCEPT ![p] = "raised"]    \* StaleDataError
                            /\ UNCHANGED frames
                       ELSE /\ frames' = [frames EXCEPT ![old["id"]] =
                                            [c \in DOMAIN @ |-> IF row[c] # old[c] THEN row[c] ELSE @[c]]]
                            /\ pc' = [pc EXCEPT ![p] = "updated"]
           ELSE LET frame == AddCreate(NextId(frames), req[p], clock)
                IN  /\ clock < MaxRaceInserts
                    /\ IF Violates(uniqueIndex, Insert(frames, frame))
                       THEN /\ pc' = [pc EXCEPT ![p] = "raised"]
                            /\ UNCHANGED <<frames, clock>>
                       ELSE /\ frames' = Insert(frames, frame)
                            /\ clock' = clock + 1
                            /\ pc' = [pc EXCEPT ![p] = "added"]

----------------------------------------------------------------------------
(* /export *)

ExportLimitDefault == 100
ExportLimitMax == 2000
InlineTextLimit == 3500

\* parse_kv_args as a dict: a later "k=v" with the same key wins
RECURSIVE KvDict(_, _)
KvDict(kv, out) ==
    IF kv = << >> THEN out
    ELSE KvDict(SubSeq(kv, 2, Len(kv)), DictSet(out, kv[1][1], kv[1][2]))

\* str.isdigit(), on the code points the inputs are drawn from
IsDigits(raw) == Len(raw) > 0 /\ \A i \in DOMAIN raw : IsDigit(raw[i])

\* ClampLimit without the floor of 1
ClampLimit_NoFloor(n) == IF n > ExportLimitMax THEN ExportLimitMax ELSE n

\* max(1, min(2000, n))
ClampLimit(n) ==
    LET m == IF n > ExportLimitMax THEN ExportLimitMax ELSE n
    IN  IF m < 1 THEN 1 ELSE m

\* limit of export_cmd: quick is the single argument of "/export <n>", when
\* there is one and it is all digits; otherwise the arguments are key=value
ExportLimit(quick, kv) ==
    IF quick # None THEN ClampLimit(DigitsValue(quick[1]))
    ELSE IF "limit" \in DOMAIN kv /\ IsDigits(kv["limit"])
         THEN ClampLimit(DigitsValue(kv["limit"]))
         ELSE ExportLimitDefault

ExportFormat(quick, kv) ==
    IF quick = None /\ "format" \in DOMAIN kv THEN PyLower(kv["format"]) ELSE <<99,115,118>>

\* since=: datetime.strptime(..., "%Y-%m-%d"); a ValueError leaves no filter.
\* On the logical clock a date is written as the number of its instant.
ExportSince(quick, kv) ==
    IF quick = None /\ "since" \in DOMAIN kv /\ IsDigits(kv["since"])
    THEN Some(DigitsValue(kv["since"])) ELSE None

\* the rows the query of export_cmd selects, before order_by and limit
ExportQuery(fs, quick, kv) ==
    LET brand_filter == IF quick = None /\ "brand" \in DOMAIN kv THEN PyLower(kv["brand"])
                        ELSE << >>
        since_date   == ExportSince(quick, kv)
    IN  { i \in DOMAIN fs :
            /\ brand_filter # << >> =>
                  (fs[i]["brand"] # None /\ SqlLower(fs[i]["brand"][1]) = brand_filter)
            /\ since_date # None => fs[i]["created_at"] >= since_date[1] }

\* order_by(created_at.desc()).limit(limit): ids, newest first
RECURSIVE NewestFirst(_, _, _)
NewestFirst(fs, ids, limit) ==
    IF ids = {} \/ limit = 0 THEN << >>
    ELSE LET i == CHOOSE x \in ids : \A y \in ids : fs[y]["created_at"] <= fs[x]["created_at"]
         IN  <<i>> \o NewestFirst(fs, ids \ {i}, limit - 1)

\* str(n) of an int
RECURSIVE IntToText(_)
IntToText(n) ==
    IF n < 0 THEN <<45>> \o IntToText(0 - n)
    ELSE IF n < 10 THEN <<48 + n>>
    ELSE IntToText(n \div 10) \o <<48 + (n % 10)>>

\* str(v) of a column value that is not None (a float holds an integral value)
ColumnText(c, v) ==
    CASE c \in TextFields -> v[1]
      [] c = "price"      -> IntToText(v[1]) \o <<46,48>>
      [] OTHER            -> IntToText(v[1])

\* s.replace('"', '""')
RECURSIVE DoubleQuotes(_)
DoubleQuotes(s) ==
    IF s = << >> THEN << >>
    ELSE (IF s[1] = 34 THEN <<34,34>> ELSE <<s[1]>>) \o DoubleQuotes(SubSeq(s, 2, Len(s)))

\* esc with the text wrapped but its quotes left single
esc_NoDoubling(c, v) ==
    IF v = None THEN << >>
    ELSE LET s == ColumnText(c, v)
         IN  IF \E i \in DOMAIN s : s[i] \in {44, 34, 10}
             THEN <<34>> \o s \o <<34>>
             ELSE s

\* esc(v) of export_cmd, for the value v of column c
esc(c, v) ==
    IF v = None THEN << >>
    ELSE LET s == ColumnText(c, v)
         IN  IF \E i \in DOMAIN s : s[i] \in {44, 34, 10}
             THEN <<34>> \o DoubleQuotes(s) \o <<34>>
             ELSE s

\* Frame.to_dict(): created_at.isoformat() is the instant of the logical clock
to_dict(row) ==
    [c \in DOMAIN row |-> IF c \in {"id", "created_at"} THEN Some(row[c]) ELSE row[c]]

\* one line of the CSV file, by header
CsvLine(row) == [h \in DOMAIN row |-> esc(h, to_dict(row)[h])]

\* length of one line of the text format:
\* "{id}: {brand or 'NoBrand'} {model_code} stock={stock} price={price or '-'}"
TextLineLen(row) ==
    Len(IntToText(row["id"])) + 2
      + (IF IsEmptyValue("brand", row["brand"]) THEN 7 ELSE Len(row["brand"][1])) + 1
      + Len(row["model_code"][1]) + 7
      + (IF row["stock"] = None THEN 4 ELSE Len(IntToText(row["stock"][1]))) + 7
      + (IF IsEmptyValue("price", row["price"]) THEN 1 ELSE Len(ColumnText("price", row["price"])))

\* len("\n".join(lines))
RECURSIVE TextLen(_, _)
TextLen(fs, rows) ==
    IF rows = << >> THEN 0
    ELSE TextLineLen(fs[rows[1]]) + (IF Len(rows) > 1 THEN 1 ELSE 0)
            + TextLen(fs, SubSeq(rows, 2, Len(rows)))

NoCells == << >>

\* quick: Some(digits) for "/export <n>", None otherwise; data: the key=value
\* arguments.  The answer is a document (count, extension, and for CSV the
\* cells), an inline text, or the no-data message.
Export(quick, data) ==
    LET kv     == KvDict(data, EmptyDict)
        format == ExportFormat(quick, kv)
        rows   == NewestFirst(frames, ExportQuery(frames, quick, kv), ExportLimit(quick, kv))
        Answer(kind, ext, cells) ==
            [kind |-> kind, id |-> 0, count |-> Len(rows), ext |-> ext, rows |-> rows,
             cells |-> cells]
    IN  /\ msg' = [cmd |-> "export", data |-> data, ids |-> << >>, quick |-> quick]
        /\ UNCHANGED <<frames, uniqueIndex, clock, convVars, raceVars>>
        /\ reply' =
              IF rows = << >> THEN Answer("no_data", "", NoCells)
              ELSE IF format = <<106,115,111,110>> THEN Answer("document", "json", NoCells)
              ELSE IF format \in { <<116,101,120,116>>, <<116,120,116>> }
              THEN IF format = <<116,120,116>> \/ TextLen(frames, rows) > InlineTextLimit
                   THEN Answer("document", "txt", NoCells)
                   ELSE Answer("text", "", NoCells)
              ELSE Answer("document", "csv", [k \in DOMAIN rows |-> CsvLine(frames[rows[k]])])

----------------------------------------------------------------------------
(* /search of the bot and "search" of main.py *)

SearchLimit == 10
CliSearchLimit == 100

\* SQLite's LIKE on texts already folded by lower(): % matches any run of
\* characters, _ any one character
RECURSIVE LikeMatch(_, _)
LikeMatch(p, t) ==
    IF p = << >> THEN t = << >>
    ELSE IF p[1] = 37
         THEN \/ LikeMatch(SubSeq(p, 2, Len(p)), t)
              \/ t # << >> /\ LikeMatch(p, SubSeq(t, 2, Len(t)))
         ELSE /\ t # << >>
              /\ (p[1] = 95 \/ p[1] = t[1])
              /\ LikeMatch(SubSeq(p, 2, Len(p)), SubSeq(t, 2, Len(t)))

\* col.ilike("%value%"): lower(col) LIKE lower('%value%'); NULL never matches
ILikeContains(col, value) ==
    col # None /\ LikeMatch(<<37>> \o SqlLower(value) \o <<37>>, SqlLower(col[1]))

\* col == value, col >= value, col <= value on a nullable column
SqlEq(col, value) == col # None /\ col[1] = value

SqlGe(col, value) == col # None /\ col[1] >= value

SqlLe(col, value) == col # None /\ col[1] <= value

\* min_price / max_price of search(): float(data[key]) or, on ValueError, None
PriceBound(kv, key) == IF key \in DOMAIN kv THEN PyFloat(kv[key]) ELSE None

\* the rows the query of search() selects, before order_by and limit
SearchQuery(fs, norm, min_price, max_price) ==
    { i \in DOMAIN fs :
        /\ \A field \in DOMAIN norm :
              IF field \in TextFields
              THEN ILikeContains(fs[i][field], norm[field][1])
              ELSE SqlEq(fs[i][field], norm[field][1])
        /\ min_price # None => SqlGe(fs[i]["price"], min_price[1])
        /\ max_price # None => SqlLe(fs[i]["price"], max_price[1]) }

Found(rows) ==
    [kind |-> IF rows = << >> THEN "no_matches" ELSE "rows", id |-> 0, rows |-> rows]

Search(data) ==
    LET kv   == KvDict(data, EmptyDict)
        norm == normalize_fields(data)
        sel  == SearchQuery(frames, norm, PriceBound(kv, "min_price"), PriceBound(kv, "max_price"))
    IN  /\ msg' = [cmd |-> "search", data |-> data, ids |-> << >>]
        /\ reply' = Found(NewestFirst(frames, sel, SearchLimit))
        /\ UNCHANGED <<frames, uniqueIndex, clock, convVars, raceVars>>

\* prompt_search(): answers holds the non-blank, well-typed answers; the
\* material is lowercased
prompt_search(answers) ==
    [f \in DOMAIN answers |->
        IF f = "material" THEN Some(PyLower(answers[f][1])) ELSE answers[f]]

\* the rows the query of search_frames() selects
CliSearchQuery(fs, filters) ==
    { i \in DOMAIN fs :
        /\ \A field \in {"brand", "model_code", "material", "color", "shape", "gender"} :
              field \in DOMAIN filters => ILikeContains(fs[i][field], filters[field][1])
        /\ "lens_width" \in DOMAIN filters
              => SqlEq(fs[i]["lens_width"], filters["lens_width"][1])
        /\ "min_price" \in DOMAIN filters => SqlGe(fs[i]["price"], filters["min_price"][1])
        /\ "max_price" \in DOMAIN filters => SqlLe(fs[i]["price"], filters["max_price"][1]) }

CliSearch(answers) ==
    LET filters == prompt_search(answers)
    IN  /\ msg' = [cmd |-> "cli_search", data |-> << >>, ids |-> << >>, filters |-> filters]
        /\ reply' = Found(NewestFirst(frames, CliSearchQuery(frames, filters), CliSearchLimit))
        /\ UNCHANGED <<frames, uniqueIndex, clock, convVars, raceVars>>

----------------------------------------------------------------------------
(* /stats *)

\* NoBrand
NoBrandLabel == <<78,111,66,114,97,110,100>>

RECURSIVE SumColumn(_, _, _)
SumColumn(fs, ids, c) ==
    IF ids = {} THEN 0
    ELSE LET i == CHOOSE x \in ids : TRUE
         IN  (IF fs[i][c] = None THEN 0 ELSE fs[i][c][1]) + SumColumn(fs, ids \ {i}, c)

\* f"{num/den:.2f}" in hundredths, for num >= 0 (no quotient of the stores
\* explored lies half-way between two hundredths)
Format2f(num, den) == (200 * num + den) \div (2 * den)

\* GROUP BY brand: one group per distinct stored value, NULL being one group
BrandGroups(fs) ==
    { { i \in DOMAIN fs : fs[i]["brand"] = b } : b \in { fs[j]["brand"] : j \in DOMAIN fs } }

\* "{brand or 'NoBrand'}" of a group
GroupLabel(fs, g) ==
    LET brand == fs[CHOOSE i \in g : TRUE]["brand"]
    IN  IF IsEmptyValue("brand", brand) THEN NoBrandLabel ELSE brand[1]

\* func.count(Frame.id) or func.sum(Frame.stock) of a group
GroupWeight(fs, g, by) ==
    IF by = "cnt" THEN Cardinality(g) ELSE SumColumn(fs, g, "stock")

\* order_by(desc(...)).first(): the groups the query may return first
TopGroups(fs, by) ==
    { g \in BrandGroups(fs) :
        \A h \in BrandGroups(fs) : GroupWeight(fs, h, by) <= GroupWeight(fs, g, by) }

\* top_by_count / top_by_stock: (label, weight) of a first group, or None
TopBrand(fs, by) ==
    IF DOMAIN fs = {} THEN {None}
    ELSE { Some(<<GroupLabel(fs, g), GroupWeight(fs, g, by)>>) : g \in TopGroups(fs, by) }

\* the texts of the answer: None stands for "-", an average is in hundredths
Stats ==
    LET ids         == DOMAIN frames
        total       == Cardinality(ids)
        priced      == { i \in ids : frames[i]["price"] # None }
        avg_price   == IF priced = {} THEN None
                       ELSE Some(Format2f(SumColumn(frames, priced, "price"), Cardinality(priced)))
        total_stock == SumColumn(frames, ids, "stock")
    IN  /\ msg' = [cmd |-> "stats", data |-> << >>, ids |-> << >>]
        /\ UNCHANGED <<frames, uniqueIndex, clock, convVars, raceVars>>
        /\ \E top_by_count \in TopBrand(frames, "cnt"), top_by_stock \in TopBrand(frames, "s") :
              reply' = [kind |-> "stats", id |-> 0,
                        total |-> total,
                        distinct_brands |->
                            Cardinality({ frames[i]["brand"] : i \in ids } \ {None}),
                        top_by_count |-> top_by_count,
                        top_by_stock |-> top_by_stock,
                        total_stock |-> total_stock,
                        avg_stock_per_frame |->
                            IF total # 0 THEN Some(Format2f(total_stock, total)) ELSE None,
                        avg_price |->
                            IF avg_price # None /\ avg_price[1] # 0 THEN avg_price ELSE None]

----------------------------------------------------------------------------
(* Inputs the handlers are driven with: parse_kv_args output, in key order *)

KV(k, raw) == << <<k, raw>> >>

ModelArgs ==
    { << >>, KV("model", << >>), KV("model", <<97>>), KV("model", <<65>>),
      KV("model_code", <<201>>) }                  \* none, "", "a", "A", "É"

BrandArgs == { << >>, KV("brand", << >>), KV("brand", <<98>>), KV("brand", <<66>>) }

StockArgs == { << >>, KV("stock", <<48>>), KV("stock", <<50>>), KV("stock", <<120>>) }

FieldArgs ==
    { << >>,
      KV("material", <<109,101,116,97,108>>), KV("material", <<102,111,111>>),
      KV("lens", <<48>>), KV("lens", <<53>>), KV("lens", <<120>>),
      KV("bridge", <<53>>), KV("temple_length", <<53>>),
      KV("color", << >>), KV("color", <<97>>),
      KV("shape", <<97>>), KV("gender", <<97>>),
      KV("price", <<48>>), KV("price", <<53>>),
      KV("notes", <<97>>) }

KeyArgs ==
    { m : m \in ModelArgs } \cup { KV("model", <<97>>) \o b : b \in BrandArgs }

\* /add with a key and possibly a stock
UpsertInputs == { k \o s : k \in KeyArgs, s \in StockArgs }

\* /add of model "a" with at most one other field
FillInputs == { KV("model", <<97>>) \o f : f \in FieldArgs }

Procs == {1, 2}

NoMsg == [cmd |-> "none", data |-> << >>, ids |-> << >>]

\* The store right after "main.py init-db": tables created, no index, no rows.
Init ==
    /\ frames = << >>
    /\ uniqueIndex = FALSE
    /\ clock = 0
    /\ msg = NoMsg
    /\ reply = NoReply
    /\ conv = "END"
    /\ draft = None
    /\ pc = [p \in Procs |-> "idle"]
    /\ req = [p \in Procs |-> EmptyDict]
    /\ existing = [p \in Procs |-> None]

InitRace ==
    /\ frames = << >>
    /\ uniqueIndex = FALSE
    /\ clock = 0
    /\ msg = NoMsg
    /\ reply = NoReply
    /\ conv = "END"
    /\ draft = None
    /\ pc = [p \in Procs |-> "off"]
    /\ req = [p \in Procs |-> EmptyDict]
    /\ existing = [p \in Procs |-> None]

\* upsert alone, over keys and stocks
NextUpsert == BotInitDb \/ \E data \in UpsertInputs : Add(data)

SpecUpsert == Init /\ [][NextUpsert]_vars

\* upsert alone, over the fields of the fill set
NextFill == \E data \in FillInputs : Add(data)

SpecFill == Init /\ [][NextFill]_vars

Ids == 1 .. (MaxClock + 1)

MergeSetupInputs ==
    { KV("model", <<97>>) \o b \o f :
        b \in { << >>, KV("brand", <<66>>) },
        f \in { << >>, KV("color", <<97>>), KV("price", <<48>>), KV("stock", <<50>>) } }

\* /add and /merge
NextMerge ==
    \/ BotInitDb
    \/ \E data \in MergeSetupInputs : Add(data)
    \/ \E sid, tid \in Ids : Merge(sid, tid)

SpecMerge == Init /\ [][NextMerge]_vars

UpdateSetupInputs ==
    { [model_code |-> Some(<<97>>), color |-> Some(<<98>>)],     \* model a, color b
      [model_code |-> Some(<<98>>), color |-> Some(<<98>>)] }    \* model b, color b

UpdateInputs ==
    { KV("lens", <<120>>),                            \* lens=x
      KV("lens", <<120>>) \o KV("color", <<97>>),     \* lens=x color=a
      KV("lens", <<53>>) \o KV("color", << >>),       \* lens=5 color=
      KV("model", <<65>>),                            \* model=A
      KV("material", <<102,111,111>>) \o KV("size", <<53>>) }   \* material=foo size=5

\* /update on records entered at the command-line front end
NextUpdate ==
    \/ BotInitDb
    \/ \E answers \in UpdateSetupInputs : CliAdd(answers)
    \/ \E id \in Ids, data \in UpdateInputs : Update(id, data)

SpecUpdate == Init /\ [][NextUpdate]_vars

RaceInputs == { KV("model", <<97>>), KV("model", <<65>>) \o KV("stock", <<50>>) }

RaceCliInputs == { [model_code |-> Some(<<98>>)] }

\* two bot processes, each handling /add, beside the interactive add
NextRace ==
    \/ \E p \in Procs : BotStart(p)
    \/ \E p \in Procs, data \in RaceInputs : AddLookup(p, data)
    \/ \E p \in Procs : AddCommit(p)
    \/ \E answers \in RaceCliInputs : CliAdd(answers)

SpecRace == InitRace /\ [][NextRace]_vars

AddingInputs ==
    { KV("model", <<97>>), KV("model", <<65>>) \o KV("stock", <<50>>),
      KV("model", <<97>>) \o KV("brand", <<66>>) }

CliInputs ==
    { [model_code |-> Some(<<97>>)],
      [model_code |-> Some(<<65>>), brand |-> Some(<<66>>), stock |-> Some(2)] }

\* the record-adding operations of both front ends, one at a time
NextAdding ==
    \/ BotInitDb
    \/ \E data \in AddingInputs : Add(data)
    \/ \E answers \in CliInputs : CliAdd(answers)
    \/ new_start
    \/ \E text \in { <<97>> } : new_model(text)
    \/ \E text \in { <<45>>, <<66>> } : new_brand(text)
    \/ \E text \in { << >>, <<50>>, <<120>> } : new_stock(text)
    \/ \E done \in BOOLEAN : new_optionals(done, IF done THEN << >> ELSE KV("color", <<97>>))
    \/ \E ans \in {"yes", "no", "maybe"} : new_confirm(ans)
    \/ new_cancel

SpecAdding == Init /\ [][NextAdding]_vars

\* every handler of both front ends, one at a time
Next ==
    \/ BotInitDb
    \/ \E data \in { KV("model", <<97>>), KV("model", <<97>>) \o KV("brand", <<66>>) } : Add(data)
    \/ \E answers \in { [model_code |-> Some(<<97>>)] } : CliAdd(answers)
    \/ new_start
    \/ new_model(<<97>>)
    \/ new_brand(<<45>>)
    \/ new_stock(<< >>)
    \/ new_optionals(TRUE, << >>)
    \/ \E ans \in {"yes", "no"} : new_confirm(ans)
    \/ new_cancel
    \/ \E sid, tid \in Ids : Merge(sid, tid)
    \/ \E id \in Ids : Update(id, KV("lens", <<53>>))
    \/ \E id \in Ids : SetStock(id, 2)
    \/ \E id \in Ids : DeleteCmd(id)

Spec == Init /\ [][Next]_vars

LifecycleInputs == { KV("model", <<97>>), KV("model", <<98>>) \o KV("stock", <<50>>) }

\* /update 1 id=5 created_at=9 color=a
LifecycleUpdates == { KV("id", <<53>>) \o KV("created_at", <<57>>) \o KV("color", <<97>>) }

\* upsert, merge, explicit update, setstock and delete, one at a time
NextLifecycle ==
    \/ BotInitDb
    \/ \E data \in LifecycleInputs : Add(data)
    \/ \E sid, tid \in Ids : Merge(sid, tid)
    \/ \E id \in Ids, data \in LifecycleUpdates : Update(id, data)
    \/ \E id \in Ids : SetStock(id, 0)
    \/ \E id \in Ids : DeleteCmd(id)

SpecLifecycle == Init /\ [][NextLifecycle]_vars

MaterialArgs ==
    { KV("material", <<109,101,116,97,108>>),      \* material=metal
      KV("material", <<77,101,116,97,108>>),       \* material=Metal
      KV("material", <<102,111,111>>),             \* material=foo
      KV("material", << >>) }                      \* material=

MaterialInputs == { KV("model", <<97>>) \o m : m \in MaterialArgs }

MaterialCliInputs ==
    { [model_code |-> Some(<<98>>)],
      [model_code |-> Some(<<98>>), material |-> Some(<<87,111,111,100>>)],    \* Wood
      [model_code |-> Some(<<99>>), material |-> Some(<<102,111,111>>)] }      \* foo

\* the operations of both front ends that write a material
NextMaterial ==
    \/ \E data \in MaterialInputs : Add(data)
    \/ \E answers \in MaterialCliInputs : CliAdd(answers)
    \/ \E id \in Ids, m \in MaterialArgs : Update(id, m)
    \/ \E sid, tid \in Ids : Merge(sid, tid)

SpecMaterial == Init /\ [][NextMaterial]_vars

\* the guided add conversation, beside init_db()
NextConversation ==
    \/ BotInitDb
    \/ new_start
    \/ \E text \in { << >>, <<97>>, <<201>> } : new_model(text)         \* "", a, É
    \/ \E text \in { <<45>>, <<66>> } : new_brand(text)                 \* -, B
    \/ \E text \in { << >>, <<50>>, <<120>> } : new_stock(text)         \* "", 2, x
    \/ \E done \in BOOLEAN : new_optionals(done, IF done THEN << >> ELSE KV("color", <<97>>))
    \/ \E ans \in {"yes", "no", "maybe"} : new_confirm(ans)
    \/ new_cancel

SpecConversation == Init /\ [][NextConversation]_vars

GuidedSetupInputs == { KV("model", <<97>>), KV("model", <<97>>) \o KV("brand", <<66>>) }

GuidedOptionals ==
    { KV("color", << >>),                               \* color=
      KV("lens", <<48>>) \o KV("material", <<102>>) }   \* lens=0 material=f

\* /add, then guided adds of the same model code
NextGuided ==
    \/ \E data \in GuidedSetupInputs : Add(data)
    \/ new_start
    \/ new_model(<<65>>)                                                  \* A
    \/ \E text \in { <<45>>, <<98>> } : new_brand(text)                   \* -, b
    \/ \E text \in { << >>, <<48>> } : new_stock(text)                   \* "", 0
    \/ \E kv \in GuidedOptionals : new_optionals(FALSE, kv)
    \/ new_optionals(TRUE, << >>)
    \/ \E ans \in {"yes", "no"} : new_confirm(ans)
    \/ new_cancel

SpecGuided == Init /\ [][NextGuided]_vars

SearchSetupInputs ==
    { KV("model", <<97>>) \o KV("brand", <<82,97,121>>)                  \* model=a brand=Ray
        \o KV("material", <<109,101,116,97,108>>) \o KV("price", <<53>>),  \* material=metal price=5
      KV("model", <<98>>) \o KV("lens", <<53>>),                          \* model=b lens=5
      KV("model", <<99>>) \o KV("brand", <<79,97,107>>)                   \* model=c brand=Oak
        \o KV("material", <<102,111,111>>) \o KV("price", <<57>>) }       \* material=foo price=9

SearchInputs ==
    { << >>,
      KV("brand", <<114,97>>),                                   \* brand=ra
      KV("brand", <<97>>) \o KV("min_price", <<54>>),            \* brand=a min_price=6
      KV("material", <<109,101,116>>),                           \* material=met
      KV("material", <<77,69,84,65,76>>),                        \* material=METAL
      KV("material", <<122>>),                                   \* material=z
      KV("lens", <<53>>),                                        \* lens=5
      KV("min_price", <<50>>) \o KV("max_price", <<54>>),        \* min_price=2 max_price=6
      KV("max_price", <<57>>),                                   \* max_price=9
      KV("model", <<122>>) }                                     \* model=z

CliSearchInputs ==
    { [brand |-> Some(<<114,97>>)],                                           \* brand ra
      [material |-> Some(<<77,101,116>>)],                                    \* material Met
      [material |-> Some(<<122>>)],                                           \* material z
      [min_price |-> Some(2), max_price |-> Some(6)],
      [lens_width |-> Some(5), model_code |-> Some(<<66>>)] }                \* lens 5, model B

\* /add, then the searches of both front ends
NextSearch ==
    \/ \E data \in SearchSetupInputs : Add(data)
    \/ \E data \in SearchInputs : Search(data)
    \/ \E answers \in CliSearchInputs : CliSearch(answers)

SpecSearch == Init /\ [][NextSearch]_vars

StatsInputs ==
    { KV("model", <<97>>),                                                   \* model=a
      KV("model", <<98>>) \o KV("brand", << >>),                             \* model=b brand=
      KV("model", <<99>>) \o KV("brand", <<66>>) \o KV("stock", <<50>>),     \* model=c brand=B stock=2
      KV("model", <<100>>) \o KV("price", <<53>>) }                          \* model=d price=5

\* /add, /delete and /stats
NextStats ==
    \/ \E data \in StatsInputs : Add(data)
    \/ \E id \in Ids : DeleteCmd(id)
    \/ Stats

SpecStats == Init /\ [][NextStats]_vars

MaxLen == 3    \* longest text drawn from the CSV alphabet

\* a letter, the comma, the double quote, the newline
CsvAlphabet == {97, 44, 34, 10}

\* He said "hi", then left
HeSaid == <<72,101,32,115,97,105,100,32,34,104,105,34,44,32,116,104,101,110,32,108,101,102,116>>

CsvTexts == UNION { [1 .. n -> CsvAlphabet] : n \in 0 .. MaxLen } \cup { HeSaid }

CsvRecords ==
    { KV("model", <<97>>) } \cup { KV("model", <<97>>) \o KV("notes", t) : t \in CsvTexts }

\* the store after one /add of a record with the notes under test
InitCsv ==
    /\ \E data \in CsvRecords :
          frames = Insert(<< >>, AddCreate(1, normalize_fields(data), 0))
    /\ uniqueIndex = FALSE
    /\ clock = 1
    /\ msg = NoMsg
    /\ reply = NoReply
    /\ conv = "END"
    /\ draft = None
    /\ pc = [p \in Procs |-> "idle"]
    /\ req = [p \in Procs |-> EmptyDict]
    /\ existing = [p \in Procs |-> None]

\* /export and /export format=csv
NextCsv == \E data \in { << >>, KV("format", <<99,115,118>>) } : Export(None, data)

SpecCsv == InitCsv /\ [][NextCsv]_vars

\* a model code whose line of the text format is longer than an inline message
LongText == [i \in 1 .. (InlineTextLimit + 1) |-> 97]

ExportSetupInputs ==
    { [model_code |-> Some(<<97>>), brand |-> Some(<<66>>)],      \* model a, brand B
      [model_code |-> Some(<<98>>)],                              \* model b
      [model_code |-> Some(LongText)] }

ExportInputs ==
    { << >>,
      KV("format", <<106,115,111,110>>),                              \* format=json
      KV("format", <<116,101,120,116>>),                              \* format=text
      KV("format", <<116,120,116>>),                                  \* format=txt
      KV("format", <<84,69,88,84>>) \o KV("limit", <<49>>),           \* format=TEXT limit=1
      KV("format", <<120,109,108>>) \o KV("brand", <<98>>),           \* format=xml brand=b
      KV("format", <<116,120,116>>) \o KV("brand", <<122>>),          \* format=txt brand=z
      KV("format", <<106,115,111,110>>) \o KV("since", <<57>>),       \* format=json since=9
      KV("format", <<116,101,120,116>>) \o KV("since", <<49>>),       \* format=text since=1
      KV("limit", <<48>>) \o KV("format", <<116,120,116>>),           \* limit=0 format=txt
      KV("limit", <<53,48,48,48>>) }                                  \* limit=5000

\* /export on records entered at the command-line front end
NextExport ==
    \/ \E answers \in ExportSetupInputs : CliAdd(answers)
    \/ \E data \in ExportInputs : Export(None, data)
    \/ \E n \in { <<48>>, <<49>> } : Export(Some(n), << >>)         \* /export 0, /export 1

SpecExport == Init /\ [][NextExport]_vars

----------------------------------------------------------------------------
(* Claims about upsert (/add) *)

Norm(m) == normalize_fields(m.data)

CandKey(norm) == MatchingKey(DictGet(norm, "brand"), norm["model_code"])

HoldsKey(fs, key) == \E i \in DOMAIN fs : RowKey(fs[i]) = key

IsUpsert(m) == m.cmd = "add" /\ "model_code" \in DOMAIN Norm(m)

\* stock a create is given: the supplied stock, or 1 when none is supplied
CreateStock(norm) == IF "stock" \in DOMAIN norm THEN norm["stock"][1] ELSE 1

\* stock a merge is given: the supplied stock, or 1 when none (or zero, as
\* the merge path of section 4.2 reads it) is supplied
MergeStock(norm) ==
    IF "stock" \in DOMAIN norm /\ norm["stock"][1] # 0 THEN norm["stock"][1] ELSE 1

\* the first upsert of a key the store does not hold creates one record
C1_FirstCreates ==
    (IsUpsert(msg') /\ ~HoldsKey(frames, CandKey(Norm(msg'))))
        => /\ reply'.kind = "added"
           /\ DOMAIN frames' = DOMAIN frames \cup {reply'.id}
           /\ reply'.id \notin DOMAIN frames
           /\ \A i \in DOMAIN frames : frames'[i] = frames[i]

\* the upsert that follows it with the same key merges into that record
C1_SecondMerges ==
    (/\ IsUpsert(msg) /\ reply.kind = "added"
     /\ IsUpsert(msg') /\ CandKey(Norm(msg')) = CandKey(Norm(msg)))
        => /\ reply'.kind = "updated"
           /\ reply'.id = reply.id
           /\ DOMAIN frames' = DOMAIN frames
           /\ StockOf(frames'[reply.id])
                 = CreateStock(Norm(msg)) + MergeStock(Norm(msg'))

\* C1: two upserts with one Matching Key, issued one after the other to a
\* store without that key: the first creates one record, the second merges
\* into it without creating a record, and the stock is the sum of the two
\* stocks (1 standing for a stock that is not supplied).
C1_SequentialUpsertSumsStock == [][C1_FirstCreates /\ C1_SecondMerges]_vars

\* v is empty as the fill-only-if-empty policy defines it: absent, blank, zero
IsEmptyCandidate(norm, f) == f \notin DOMAIN norm \/ IsEmptyValue(f, norm[f])

MergedRow(m, r) == m.cmd = "add" /\ r.kind = "updated"

\* C2 as stated: on the merge path a field of the fill set changes only when
\* the stored value is empty and the candidate's value is non-empty (absent,
\* blank and zero candidates are never written).
C2_FillOnlyNonEmptyCandidate ==
    [][MergedRow(msg', reply') =>
          \A f \in updatable_fields :
              frames'[reply'.id][f] # frames[reply'.id][f]
                  => /\ IsEmptyValue(f, frames[reply'.id][f])
                     /\ ~IsEmptyCandidate(Norm(msg'), f)]_vars

\* C2 amended: on the merge path a field of the fill set changes only when
\* the stored value is empty (absent, blank or zero) and the candidate
\* supplies a value that is not blank text - a supplied numeric zero is
\* written - and it then takes the candidate's value; a stored non-empty
\* value is never overwritten.
C2_FillOnlyIfEmpty ==
    [][MergedRow(msg', reply') =>
          \A f \in updatable_fields :
              \/ frames'[reply'.id][f] = frames[reply'.id][f]
              \/ /\ IsEmptyValue(f, frames[reply'.id][f])
                 /\ f \in DOMAIN Norm(msg')
                 /\ IsSupplied(f, Norm(msg')[f])
                 /\ frames'[reply'.id][f] = Norm(msg')[f]]_vars

\* a merge has left a stored non-empty value in place although the candidate
\* supplied a different one
C2_Witness ==
    /\ MergedRow(msg, reply)
    /\ \E f \in updatable_fields \cap DOMAIN Norm(msg) :
          /\ IsSupplied(f, Norm(msg)[f])
          /\ ~IsEmptyValue(f, frames[reply.id][f])
          /\ frames[reply.id][f] # Norm(msg)[f]

\* C6: an upsert whose modelCode is absent or the empty text is refused and
\* changes no record.
C6_EmptyModelRejected ==
    [][(/\ msg'.cmd = "add"
        /\ \/ "model_code" \notin DOMAIN Norm(msg')
           \/ Norm(msg')["model_code"] = Some(<< >>))
          => (reply'.kind = "missing_model" /\ frames' = frames)]_vars

KeyOnly(norm) == "model_code" \in DOMAIN norm /\ DOMAIN norm \subseteq {"brand", "model_code"}

\* C10: re-upserting a candidate that carries only the Matching Key onto an
\* existing record changes nothing but that record's stock, which grows by 1.
C10_KeyOnlyReupsertAddsOne ==
    [][(/\ msg'.cmd = "add" /\ KeyOnly(Norm(msg'))
        /\ HoldsKey(frames, CandKey(Norm(msg'))))
          => \E e \in DOMAIN frames :
                /\ RowKey(frames[e]) = CandKey(Norm(msg'))
                /\ frames' = [frames EXCEPT ![e]["stock"] = Some(StockOf(frames[e]) + 1)]]_vars

----------------------------------------------------------------------------
(* Claims about the adding operations, /merge, the race, /update *)

\* C3: after any sequence of record-adding operations of either front end,
\* issued one at a time from an empty store, no two stored records share a
\* Matching Key.
C3_NoTwoRecordsShareKey ==
    \A i, j \in DOMAIN frames : i # j => RowKey(frames[i]) # RowKey(frames[j])

MergeOf(m) == m.cmd = "merge"

\* C4: merge(A, B) with A # B and both ids existing leaves B, under its id,
\* with the sum of the two stocks, and removes A, in one step.
C4_MergeLeavesTarget ==
    [][(/\ MergeOf(msg') /\ msg'.ids[1] # msg'.ids[2]
        /\ msg'.ids[1] \in DOMAIN frames /\ msg'.ids[2] \in DOMAIN frames)
          => /\ DOMAIN frames' = DOMAIN frames \ {msg'.ids[1]}
             /\ frames'[msg'.ids[2]]["id"] = msg'.ids[2]
             /\ StockOf(frames'[msg'.ids[2]])
                   = StockOf(frames[msg'.ids[1]]) + StockOf(frames[msg'.ids[2]])]_vars

\* C5: a merge whose source equals its target, or one of whose ids does not
\* resolve, is refused and leaves every stored record as it was.
C5_FailedMergeChangesNothing ==
    [][MergeOf(msg') =>
          /\ msg'.ids[1] = msg'.ids[2]
                => (frames' = frames /\ reply'.kind = "must_differ")
          /\ (msg'.ids[1] # msg'.ids[2]
                /\ (msg'.ids[1] \notin DOMAIN frames \/ msg'.ids[2] \notin DOMAIN frames))
                => (frames' = frames /\ reply'.kind = "not_found")]_vars

\* a merge towards a missing target was refused and its source is still there
C5_Witness ==
    /\ MergeOf(msg) /\ reply.kind = "not_found"
    /\ msg.ids[1] \in DOMAIN frames /\ msg.ids[2] \notin DOMAIN frames

SharesKey(fs, key) ==
    \E i, j \in DOMAIN fs : i # j /\ RowKey(fs[i]) = key /\ RowKey(fs[j]) = key

\* C7: without the unique index, a process whose lookup found no record,
\* and which commits after another process has created a record of the same
\* Matching Key from an equally empty lookup, creates a second record of
\* that key.
C7_ConcurrentUpsertsDuplicate ==
    [][\A p, q \in Procs :
          (/\ p # q /\ ~uniqueIndex
           /\ pc[p] = "commit" /\ existing[p] = None /\ pc'[p] # "commit"
           /\ pc[q] = "added" /\ CandKey(req[q]) = CandKey(req[p]))
             => /\ pc'[p] = "added"
                /\ Cardinality(DOMAIN frames') = Cardinality(DOMAIN frames) + 1
                /\ SharesKey(frames', CandKey(req[p]))]_vars

\* both processes took the create path for one key and the store holds two
\* records of that key
C7_Witness ==
    /\ ~uniqueIndex
    /\ \A p \in Procs : pc[p] = "added"
    /\ CandKey(req[1]) = CandKey(req[2])
    /\ SharesKey(frames, CandKey(req[1]))

UpdateOf(m) == m.cmd = "update"

\* the row /update aims at, with the normalized fields in place
Overwritten(row, norm) ==
    /\ \A f \in DOMAIN norm : row[f] = norm[f]

KeptExcept(new, old, fields) ==
    \A c \in DOMAIN old : c \notin fields => new[c] = old[c]

\* the index key the row would have with the fields of norm in place
KeyAfter(row, norm) ==
    IndexKey([brand      |-> IF "brand" \in DOMAIN norm THEN norm["brand"] ELSE row["brand"],
              model_code |-> IF "model_code" \in DOMAIN norm THEN norm["model_code"]
                             ELSE row["model_code"]])

\* the unique index holds the key for another row
Rejected(fs, idx, id, norm) ==
    idx /\ \E j \in DOMAIN fs \ {id} : IndexKey(fs[j]) = KeyAfter(fs[id], norm)

UpdateApplied(fs, fsNew, id, norm) ==
    /\ DOMAIN fsNew = DOMAIN fs
    /\ Overwritten(fsNew[id], norm)
    /\ KeptExcept(fsNew[id], fs[id], DOMAIN norm)
    /\ \A j \in DOMAIN fs \ {id} : fsNew[j] = fs[j]

\* C8 as stated: explicitUpdate on an existing id sets every supplied valid
\* field, whatever its current value, and leaves id, createdAt, the other
\* fields and the other records unchanged.
C8_UpdateOverwrites ==
    [][(UpdateOf(msg') /\ msg'.ids[1] \in DOMAIN frames /\ DOMAIN Norm(msg') # {})
          => UpdateApplied(frames, frames', msg'.ids[1], Norm(msg'))]_vars

\* C8 amended: explicitUpdate on an existing id sets every supplied valid
\* field, whatever its current value, and leaves id, createdAt, the other
\* fields and the other records unchanged - unless the unique index is
\* installed and another record already has the (brand, modelCode) the
\* update would give the record: then the store rejects the write and no
\* record changes.
C8_UpdateOverwritesUnlessRejected ==
    [][(UpdateOf(msg') /\ msg'.ids[1] \in DOMAIN frames /\ DOMAIN Norm(msg') # {})
          => IF Rejected(frames, uniqueIndex, msg'.ids[1], Norm(msg'))
             THEN frames' = frames
             ELSE UpdateApplied(frames, frames', msg'.ids[1], Norm(msg'))]_vars

\* "lens=x color=a" was applied to a row whose color was set (a row that
\* never took "lens=5 color=" has had a non-blank color all along)
C8_Witness ==
    /\ UpdateOf(msg) /\ reply.kind = "updated_fields"
    /\ "color" \in DOMAIN Norm(msg)
    /\ frames[reply.id]["color"] = Some(<<97>>)
    /\ frames[reply.id]["lens_width"] = None

\* raw is a decimal numeral, with or without a sign
IsNumeral(raw) ==
    LET digits == IF Len(raw) > 0 /\ raw[1] \in {43, 45} THEN Tail(raw) ELSE raw
    IN  Len(digits) > 0 /\ \A i \in DOMAIN digits : digits[i] \in 48 .. 57

\* the value of argument k=raw can be converted to the type of its field
Converts(k, raw) ==
    k \in DOMAIN FIELD_MAP /\ (FIELD_MAP[k][2] = "str" \/ IsNumeral(raw))

Survivors(data) == { i \in DOMAIN data : Converts(data[i][1], data[i][2]) }

SurvivingFields(data) == { FIELD_MAP[data[i][1]][1] : i \in Survivors(data) }

\* the stored value is the converted argument (a material outside the
\* enumeration is stored as "unknown")
StoredAs(row, k, raw) ==
    LET f == FIELD_MAP[k][1]
    IN  CASE f = "material"            -> row[f] \in {Some(raw), Some(Unknown)}
          [] FIELD_MAP[k][2] = "str"   -> row[f] = Some(raw)
          [] OTHER                     -> row[f] = PyInt(raw)

SurvivorsApplied(fs, fsNew, id, data) ==
    /\ DOMAIN fsNew = DOMAIN fs
    /\ \A i \in Survivors(data) : StoredAs(fsNew[id], data[i][1], data[i][2])
    /\ KeptExcept(fsNew[id], fs[id], SurvivingFields(data))
    /\ \A j \in DOMAIN fs \ {id} : fsNew[j] = fs[j]

UpdateFails(fs, fsNew, r) ==
    fsNew = fs /\ r.kind \in {"no_valid_fields", "not_found"}

\* C9 as stated: explicitUpdate drops each supplied field whose value cannot
\* be converted and applies the others; with no surviving field, or an
\* unknown id, it fails and leaves the store unchanged.
C9_InvalidFieldsDropped ==
    [][UpdateOf(msg') =>
          IF Survivors(msg'.data) = {} \/ msg'.ids[1] \notin DOMAIN frames
          THEN UpdateFails(frames, frames', reply')
          ELSE SurvivorsApplied(frames, frames', msg'.ids[1], msg'.data)]_vars

\* C9 amended: explicitUpdate drops each supplied field whose value cannot
\* be converted and applies the others - unless the unique index is
\* installed and another record already has the resulting (brand,
\* modelCode), in which case the store rejects the write and nothing
\* changes; with no surviving field, or an unknown id, it fails and leaves
\* the store unchanged.
C9_InvalidFieldsDroppedUnlessRejected ==
    [][UpdateOf(msg') =>
          IF Survivors(msg'.data) = {} \/ msg'.ids[1] \notin DOMAIN frames
          THEN UpdateFails(frames, frames', reply')
          ELSE IF Rejected(frames, uniqueIndex, msg'.ids[1], Norm(msg'))
          THEN frames' = frames
          ELSE SurvivorsApplied(frames, frames', msg'.ids[1], msg'.data)]_vars

\* "lens=x color=a" was answered as an update: the color is stored, the lens
\* width the row never had is still absent
C9_Witness ==
    /\ UpdateOf(msg) /\ reply.kind = "updated_fields"
    /\ msg.data = KV("lens", <<120>>) \o KV("color", <<97>>)
    /\ frames[reply.id]["color"] = Some(<<97>>)
    /\ frames[reply.id]["lens_width"] = None

----------------------------------------------------------------------------
(* Claims about the identity of a record *)

\* C11: whatever upsert, merge, explicit update, setstock or delete does, a
\* record that stays in the store keeps the id and the createdAt it was
\* created with, and no two stored records share an id.
C11_IdAndCreatedAtFixed ==
    [][/\ \A i \in DOMAIN frames \cap DOMAIN frames' :
            /\ frames'[i]["id"] = frames[i]["id"]
            /\ frames'[i]["created_at"] = frames[i]["created_at"]
       /\ \A i \in DOMAIN frames' : frames'[i]["id"] = i
       /\ \A i, j \in DOMAIN frames' :
            i # j => frames'[i]["id"] # frames'[j]["id"]]_vars

\* "/update <id> id=5 created_at=9 color=a" was applied to a record that is
\* not the newest one, next to another record
C11_Witness ==
    /\ UpdateOf(msg) /\ reply.kind = "updated_fields"
    /\ \E k \in DOMAIN msg.data : msg.data[k][1] = "id"
    /\ frames[reply.id]["id"] = reply.id
    /\ frames[reply.id]["color"] = Some(<<97>>)
    /\ \E j \in DOMAIN frames : frames[j]["created_at"] > frames[reply.id]["created_at"]

----------------------------------------------------------------------------
(* Claims about the material *)

\* C12: after any sequence of operations of either front end, the material
\* of every stored record is a member of the closed enumeration (a supplied
\* material outside the set having been stored as unknown).
C12_MaterialInEnumeration ==
    \A i \in DOMAIN frames :
        /\ frames[i]["material"] # None
        /\ frames[i]["material"][1] \in MATERIAL_CHOICES

----------------------------------------------------------------------------
(* Claims about the effect of /merge *)

\* C18: merge(sourceId, targetId) changes on the target only stock and the
\* fields of the fill set (material, lensWidth, bridgeSize, templeLength,
\* color, shape, gender, price, notes) that are empty on the target and
\* non-empty on the source; brand, modelCode, id and createdAt of the target
\* are unchanged, and no record other than source and target is touched.
C18_MergeTouchesOnlyFillSet ==
    [][(MergeOf(msg') /\ reply'.kind = "merged") =>
          LET sid == msg'.ids[1]
              tid == msg'.ids[2]
          IN  /\ \A c \in DOMAIN frames[tid] :
                    frames'[tid][c] # frames[tid][c]
                        => \/ c = "stock"
                           \/ /\ c \in updatable_fields
                              /\ IsEmptyValue(c, frames[tid][c])
                              /\ ~IsEmptyValue(c, frames[sid][c])
              /\ \A j \in DOMAIN frames \ {sid, tid} :
                    j \in DOMAIN frames' /\ frames'[j] = frames[j]]_vars

RECURSIVE SumStock(_, _)
SumStock(fs, ids) ==
    IF ids = {} THEN 0
    ELSE LET i == CHOOSE x \in ids : TRUE
         IN  StockOf(fs[i]) + SumStock(fs, ids \ {i})

TotalStock(fs) == SumStock(fs, DOMAIN fs)

\* C19: a successful merge leaves the sum of stock over all stored records
\* unchanged and removes exactly one record; a failed merge changes neither.
C19_MergeConservesStock ==
    [][MergeOf(msg') =>
          /\ TotalStock(frames') = TotalStock(frames)
          /\ Cardinality(DOMAIN frames') =
                IF reply'.kind = "merged" THEN Cardinality(DOMAIN frames) - 1
                ELSE Cardinality(DOMAIN frames)]_vars

\* a merge went through: one record is left and it holds the stock of both
C19_Witness ==
    /\ MergeOf(msg) /\ reply.kind = "merged"
    /\ DOMAIN frames = {msg.ids[2]}
    /\ StockOf(frames[msg.ids[2]]) >= 2

----------------------------------------------------------------------------
(* Claims about the guided add conversation *)

ConversationStep(m) ==
    m.cmd \in {"new_start", "new_model", "new_brand", "new_stock", "new_optionals",
               "new_confirm", "cancel"}

AnswersYes(m) == m.cmd = "new_confirm" /\ m.ans \in {"yes", "y"}

AnswersNo(m) == m.cmd = "new_confirm" /\ m.ans \in {"no", "n"}

\* one row was inserted, or one stored row was changed
OneWrite(fs, fsNew) ==
    \/ /\ Cardinality(DOMAIN fsNew \ DOMAIN fs) = 1
       /\ \A i \in DOMAIN fs : i \in DOMAIN fsNew /\ fsNew[i] = fs[i]
    \/ /\ DOMAIN fsNew = DOMAIN fs
       /\ Cardinality({ i \in DOMAIN fs : fsNew[i] # fs[i] }) = 1

\* C20: in the guided add conversation no step before the yes of the confirm
\* state changes the store; a no, or /cancel in any state, discards the
\* draft and ends the conversation without changing the store; a yes
\* performs exactly one write (one insert or one update) and ends the
\* conversation.
C20_OnlyYesWritesOnce ==
    [][ConversationStep(msg') =>
          /\ ~AnswersYes(msg') => frames' = frames
          /\ (AnswersNo(msg') \/ msg'.cmd = "cancel")
                => (draft' = None /\ conv' = "END" /\ frames' = frames)
          /\ AnswersYes(msg') => (OneWrite(frames, frames') /\ conv' = "END")]_vars

----------------------------------------------------------------------------
(* Claims about /export *)

ExportOf(m) == m.cmd = "export"

HasSpecial(t) == \E i \in DOMAIN t : t[i] \in {44, 34, 10}

\* every double quote of s is followed or preceded by its double
RECURSIVE QuotesPaired(_)
QuotesPaired(s) ==
    IF s = << >> THEN TRUE
    ELSE IF s[1] = 34
         THEN Len(s) >= 2 /\ s[2] = 34 /\ QuotesPaired(SubSeq(s, 3, Len(s)))
         ELSE QuotesPaired(SubSeq(s, 2, Len(s)))

\* each pair of double quotes read as one
RECURSIVE Undouble(_)
Undouble(s) ==
    IF s = << >> THEN << >>
    ELSE IF s[1] = 34 /\ Len(s) >= 2 /\ s[2] = 34
         THEN <<34>> \o Undouble(SubSeq(s, 3, Len(s)))
         ELSE <<s[1]>> \o Undouble(SubSeq(s, 2, Len(s)))

Wrapped(cell) == Len(cell) >= 2 /\ cell[1] = 34 /\ cell[Len(cell)] = 34

\* the field as a CSV reader gives it back
CsvUnquote(cell) ==
    IF Wrapped(cell) THEN Undouble(SubSeq(cell, 2, Len(cell) - 1)) ELSE cell

\* cell is t wrapped in double quotes with its double quotes doubled
QuotedAs(cell, t) ==
    /\ Wrapped(cell)
    /\ QuotesPaired(SubSeq(cell, 2, Len(cell) - 1))
    /\ Undouble(SubSeq(cell, 2, Len(cell) - 1)) = t

CsvExported(m, r) == ExportOf(m) /\ r.kind = "document" /\ r.ext = "csv"

\* C15: in the CSV export a text field is wrapped in double quotes, with its
\* double quotes doubled, exactly when it holds a comma, a double quote or a
\* newline; an absent value is rendered as the empty text; and unescaping
\* the rendered field by the CSV rule gives the stored text back.
C15_CsvFieldRoundTrips ==
    CsvExported(msg, reply) =>
        \A k \in DOMAIN reply.rows : \A h \in TextFields :
            LET v    == frames[reply.rows[k]][h]
                cell == reply.cells[k][h]
            IN  IF v = None THEN cell = << >>
                ELSE /\ HasSpecial(v[1]) => QuotedAs(cell, v[1])
                     /\ ~HasSpecial(v[1]) => cell = v[1]
                     /\ CsvUnquote(cell) = v[1]

\* the record whose notes are: He said "hi", then left
\* was exported as:            "He said ""hi"", then left"
C15_Witness ==
    /\ CsvExported(msg, reply)
    /\ frames[reply.rows[1]]["notes"] = Some(HeSaid)
    /\ reply.cells[1]["notes"] = <<34,72,101,32,115,97,105,100,32,34,34,104,105,34,34,44,32,116,104,101,110,32,108,101,102,116,34>>

\* the rows the filters of the command select
Selected(fs, m) == ExportQuery(fs, m.quick, KvDict(m.data, EmptyDict))

\* the answer is a file frames_export_<count>.<ext> of count selected rows
IsArtifact(fs, m, r) ==
    /\ r.kind = "document"
    /\ r.ext \in {"csv", "json", "txt"}
    /\ r.count = Len(r.rows)
    /\ r.count >= 1 /\ r.count <= ExportLimitMax
    /\ \A k \in DOMAIN r.rows : r.rows[k] \in Selected(fs, m)
    /\ \A k, l \in DOMAIN r.rows : k # l => r.rows[k] # r.rows[l]

\* C16 as stated: export of an empty selection answers with the no-data
\* signal and no file, whatever the format; export of a non-empty selection
\* answers with a file frames_export_<count>.<ext>, count being the number
\* of exported records (1 to 2000) and ext one of csv, json, txt.
C16_ExportArtifactOrNoData ==
    [][ExportOf(msg') =>
          IF Selected(frames, msg') = {} THEN reply'.kind = "no_data"
          ELSE IsArtifact(frames, msg', reply')]_vars

\* format=text was asked for
AsksText(m) ==
    /\ m.quick = None
    /\ "format" \in DOMAIN KvDict(m.data, EmptyDict)
    /\ PyLower(KvDict(m.data, EmptyDict)["format"]) = <<116,101,120,116>>

\* C16 amended: export of an empty selection answers with the no-data signal
\* and no file, whatever the format; export of a non-empty selection answers
\* with a file frames_export_<count>.<ext>, count being the number of
\* exported records (1 to 2000) and ext one of csv, json, txt - except that
\* format text, when the rendered lines are at most 3500 characters long,
\* is answered by an inline message and no file.
C16_ExportArtifactUnlessInlineText ==
    [][ExportOf(msg') =>
          IF Selected(frames, msg') = {} THEN reply'.kind = "no_data"
          ELSE IF AsksText(msg') /\ TextLen(frames, reply'.rows) <= InlineTextLimit
          THEN reply'.kind = "text" /\ reply'.count = Len(reply'.rows) /\ reply'.count >= 1
          ELSE IsArtifact(frames, msg', reply')]_vars

\* format=text on lines longer than an inline message was answered by a file
C16_Witness ==
    /\ ExportOf(msg) /\ AsksText(msg)
    /\ reply.kind = "document" /\ reply.ext = "txt"
    /\ reply.count >= 1

----------------------------------------------------------------------------
(* Claims about search *)

SearchOf(m) == m.cmd \in {"search", "cli_search"}

TextCriteria == {"brand", "model_code", "material", "color", "shape", "gender"}

\* the criteria a /search line supplies: field -> value
BotCriteria(kv) ==
    LET FieldOf(k) == IF k \in {"min_price", "max_price"} THEN k ELSE FIELD_MAP[k][1]
        keys == { k \in DOMAIN kv :
                    \/ k \in {"min_price", "max_price"} /\ IsNumeral(kv[k])
                    \/ k \in DOMAIN FIELD_MAP /\ FIELD_MAP[k][1] \in TextCriteria
                    \/ k \in {"lens", "lens_width"} /\ IsNumeral(kv[k]) }
    IN  [f \in { FieldOf(k) : k \in keys } |->
            LET k == CHOOSE x \in keys : FieldOf(x) = f
            IN  IF f \in TextCriteria THEN Some(kv[k]) ELSE PyInt(kv[k])]

Criteria(m) ==
    IF m.cmd = "search" THEN BotCriteria(KvDict(m.data, EmptyDict)) ELSE m.filters

\* sub occurs in t
Contains(t, sub) ==
    \E i \in 0 .. (Len(t) - Len(sub)) : SubSeq(t, i + 1, i + Len(sub)) = sub

\* row satisfies the criterion on field f
SatisfiesOne(row, f, v) ==
    CASE f \in TextCriteria -> row[f] # None /\ Contains(PyLower(row[f][1]), PyLower(v[1]))
      [] f = "lens_width"   -> row[f] = v
      [] f = "min_price"    -> row["price"] # None /\ row["price"][1] >= v[1]
      [] f = "max_price"    -> row["price"] # None /\ row["price"][1] <= v[1]

Satisfying(fs, crit) ==
    { i \in DOMAIN fs : \A f \in DOMAIN crit : SatisfiesOne(fs[i], f, crit[f]) }

RowSet(r) == { r.rows[k] : k \in DOMAIN r.rows }

\* C13: search returns exactly the stored records that satisfy all supplied
\* criteria at once (case-insensitive substring for the text fields,
\* equality for lensWidth, price >= minPrice and price <= maxPrice, a record
\* without a price being excluded by a price bound); nothing found is an
\* empty result, not an error.
C13_SearchReturnsExactlyMatches ==
    [][SearchOf(msg') =>
          /\ RowSet(reply') = Satisfying(frames, Criteria(msg'))
          /\ reply'.kind = (IF Satisfying(frames, Criteria(msg')) = {} THEN "no_matches"
                            ELSE "rows")]_vars

\* the search has a material criterion that is not a member of the enumeration
OddMaterial(m) ==
    /\ "material" \in DOMAIN Criteria(m)
    /\ PyLower(Criteria(m)["material"][1]) \notin MATERIAL_CHOICES

\* C14: a search whose material criterion is outside the enumeration is a
\* literal case-insensitive substring match on the stored material: among
\* the records that satisfy the other criteria it returns exactly those
\* whose material contains the text.
C14_OddMaterialIsLiteral ==
    [][(SearchOf(msg') /\ OddMaterial(msg')) =>
          LET crit   == Criteria(msg')
              others == [f \in DOMAIN crit \ {"material"} |-> crit[f]]
          IN  RowSet(reply') =
                 { i \in Satisfying(frames, others) :
                     SatisfiesOne(frames[i], "material", crit["material"]) }]_vars

----------------------------------------------------------------------------
(* Claims about /stats *)

StatsOf(m) == m.cmd = "stats"

\* the records counted under a label: those of that brand, or, under
\* NoBrand, those without a brand (absent or blank)
Bucket(fs, label) ==
    { i \in DOMAIN fs :
        IF IsEmptyValue("brand", fs[i]["brand"]) THEN label = NoBrandLabel
        ELSE label = fs[i]["brand"][1] }

Labels(fs) ==
    { IF IsEmptyValue("brand", fs[i]["brand"]) THEN NoBrandLabel ELSE fs[i]["brand"][1] :
        i \in DOMAIN fs }

\* records or units of stock in a set of records
BucketWeight(fs, g, units) == IF units THEN SumStock(fs, g) ELSE Cardinality(g)

\* top names a bucket of largest weight, with that weight
IsTopBucket(fs, top, units) ==
    /\ top # None
    /\ top[1][1] \in Labels(fs)
    /\ top[1][2] = BucketWeight(fs, Bucket(fs, top[1][1]), units)
    /\ \A l \in Labels(fs) : BucketWeight(fs, Bucket(fs, l), units) <= top[1][2]

\* C17: on a store without records stats() reports 0 records and 0 stock
\* and renders both averages as the unavailable marker; on a store with
\* records the average stock per record is the total stock divided by the
\* number of records, and the records without a brand are counted together
\* under NoBrand in the top brand by records and the top brand by stock.
C17_StatsAveragesAndNoBrand ==
    [][StatsOf(msg') =>
          IF DOMAIN frames = {}
          THEN /\ reply'.total = 0 /\ reply'.total_stock = 0
               /\ reply'.avg_price = None /\ reply'.avg_stock_per_frame = None
          ELSE LET n == Cardinality(DOMAIN frames)
               IN  /\ reply'.total = n
                   /\ reply'.total_stock = TotalStock(frames)
                   /\ reply'.avg_stock_per_frame = Some(Format2f(TotalStock(frames), n))
                   /\ IsTopBucket(frames, reply'.top_by_count, FALSE)
                   /\ IsTopBucket(frames, reply'.top_by_stock, TRUE)]_vars

----------------------------------------------------------------------------
(* Claims relating the guided add to /add *)

\* the stores /add leaves when it is given the field values of draft D
AddResults(fs, idx, D, now) ==
    IF Lookup(fs, D) # {}
    THEN { [fs EXCEPT ![e] = AddMerge(fs[e], D)] : e \in Lookup(fs, D) }
    ELSE LET frame == AddCreate(NextId(fs), D, now)
         IN  IF Violates(idx, Insert(fs, frame)) THEN {fs} ELSE {Insert(fs, frame)}

\* C21: confirming a draft D in the guided flow leaves the store as /add
\* with the field values of D would: the same create-or-merge decision, the
\* same stock delta and the same fill-only-if-empty result, an empty value
\* of the draft never being copied.
C21_ConfirmActsAsAdd ==
    [][(AnswersYes(msg') /\ draft # None /\ "model_code" \in DOMAIN draft[1])
          => frames' \in AddResults(frames, uniqueIndex, draft[1], clock)]_vars

=============================================================================
